---- MODULE Spec2Model ----
(***************************************************************************)
(* deepgram-transcribe-folder: a model of the two listings of the script   *)
(* that the repository holds.                                              *)
(*                                                                         *)
(*   Spec        src/index.js, statement by statement, as Node runs it     *)
(*               (a CommonJS module, sloppy mode).                         *)
(*   SpecReadme  the listing of the same script in                         *)
(*               src/src/python/README.md, lines 64-170 (an ES module with *)
(*               a top-level await and a command-line limiter).            *)
(*                                                                         *)
(* The state holds file names and paths as strings. Text gives each string *)
(* its characters, and startsWith, cur[6], the template `${inDir}${x}` and *)
(* path.parse(name).name are computed on the characters, as the code       *)
(* computes them.                                                          *)
(***************************************************************************)
EXTENDS Integers, Sequences, FiniteSets, TLC

(* ------------------------------------------------------------------ *)
(* Bounds of the model                                                 *)
(* ------------------------------------------------------------------ *)

\* the longest directory listing that is enumerated in every order
MaxFiles == 2
\* how many files of one run may meet a fault (of reading, of the provider,
\* of the disk)
MaxFaulty == 1
\* how many times the script is run on the same directories
MaxRuns == 2

(* ------------------------------------------------------------------ *)
(* Strings                                                             *)
(* ------------------------------------------------------------------ *)

\* the characters of every string the runs handle
Text ==
  "" :> <<>> @@
  "20250801.wav" :> <<"2", "0", "2", "5", "0", "8", "0", "1", ".", "w", "a", "v">> @@
  "20250812.wav" :> <<"2", "0", "2", "5", "0", "8", "1", "2", ".", "w", "a", "v">> @@
  "20250801.mp3" :> <<"2", "0", "2", "5", "0", "8", "0", "1", ".", "m", "p", "3">> @@
  "2025" :> <<"2", "0", "2", "5">> @@
  "ax2025.wav" :> <<"a", "x", "2", "0", "2", "5", ".", "w", "a", "v">> @@
  "202508_9.wav" :> <<"2", "0", "2", "5", "0", "8", "_", "9", ".", "w", "a", "v">> @@
  "./in/" :> <<".", "/", "i", "n", "/">> @@
  "./in/20250801.wav" :> <<".", "/", "i", "n", "/", "2", "0", "2", "5", "0", "8", "0", "1", ".", "w", "a", "v">> @@
  "./in/20250812.wav" :> <<".", "/", "i", "n", "/", "2", "0", "2", "5", "0", "8", "1", "2", ".", "w", "a", "v">> @@
  "./in/20250801.mp3" :> <<".", "/", "i", "n", "/", "2", "0", "2", "5", "0", "8", "0", "1", ".", "m", "p", "3">> @@
  "./in/2025" :> <<".", "/", "i", "n", "/", "2", "0", "2", "5">> @@
  "./in/ax2025.wav" :> <<".", "/", "i", "n", "/", "a", "x", "2", "0", "2", "5", ".", "w", "a", "v">> @@
  "./in/202508_9.wav" :> <<".", "/", "i", "n", "/", "2", "0", "2", "5", "0", "8", "_", "9", ".", "w", "a", "v">> @@
  "out" :> <<"o", "u", "t">> @@
  ".md" :> <<".", "m", "d">> @@
  "20250801" :> <<"2", "0", "2", "5", "0", "8", "0", "1">> @@
  "20250812" :> <<"2", "0", "2", "5", "0", "8", "1", "2">> @@
  "ax2025" :> <<"a", "x", "2", "0", "2", "5">> @@
  "202508_9" :> <<"2", "0", "2", "5", "0", "8", "_", "9">> @@
  "out/20250801.md" :> <<"o", "u", "t", "/", "2", "0", "2", "5", "0", "8", "0", "1", ".", "m", "d">> @@
  "out/20250812.md" :> <<"o", "u", "t", "/", "2", "0", "2", "5", "0", "8", "1", "2", ".", "m", "d">> @@
  "out/2025.md" :> <<"o", "u", "t", "/", "2", "0", "2", "5", ".", "m", "d">> @@
  "out/ax2025.md" :> <<"o", "u", "t", "/", "a", "x", "2", "0", "2", "5", ".", "m", "d">> @@
  "out/202508_9.md" :> <<"o", "u", "t", "/", "2", "0", "2", "5", "0", "8", "_", "9", ".", "m", "d">> @@
  "2025080" :> <<"2", "0", "2", "5", "0", "8", "0">> @@
  "--help" :> <<"-", "-", "h", "e", "l", "p">> @@
  "-h" :> <<"-", "h">> @@
  "a" :> <<"a">> @@
  "writeFileSync" :> <<"w", "r", "i", "t", "e", "F", "i", "l", "e", "S", "y", "n", "c">>

\* the string that has the characters cs
str(cs) == CHOOSE s \in DOMAIN Text : Text[s] = cs

Range(s) == {s[i] : i \in 1..Len(s)}

\* String.prototype.startsWith
startsWith(s, p) ==
  Len(Text[p]) <= Len(Text[s]) /\ SubSeq(Text[s], 1, Len(Text[p])) = Text[p]

\* s[i], zero-based; past the end it is undefined, which as a property key
\* is the string "undefined"
charAt(s, i) == IF i + 1 <= Len(Text[s]) THEN Text[s][i + 1] ELSE "undefined"

\* the characters of a path after its last "/"
basename(p) ==
  LET cs == Text[p]
      slashes == {i \in 1..Len(cs) : cs[i] = "/"}
      last == IF slashes = {} THEN 0 ELSE CHOOSE i \in slashes : \A j \in slashes : j <= i
  IN str(SubSeq(cs, last + 1, Len(cs)))

\* path.parse(p).name: the base name without its last extension; a dot in
\* first position starts no extension
stem(p) ==
  LET b == Text[basename(p)]
      dots == {i \in 2..Len(b) : b[i] = "."}
      last == IF dots = {} THEN Len(b) + 1 ELSE CHOOSE i \in dots : \A j \in dots : j <= i
  IN str(SubSeq(b, 1, last - 1))

(* ------------------------------------------------------------------ *)
(* The entries a directory may hold                                    *)
(* ------------------------------------------------------------------ *)

\* two recordings of days 01 and 12 (7th characters "0" and "1"); the stem
\* of the first with another extension; a name shorter than 7 characters;
\* a name that holds "2025" but not at its start; a name whose 7th
\* character is no seeded key
Names == {"20250801.wav", "20250812.wav", "20250801.mp3", "2025",
          "ax2025.wav", "202508_9.wav"}

\* README.md:32  --batch-size N: number of files to process in parallel
\* (default: 4)
BatchSize == 4

\* a listing of BatchSize + 1 entries that the limiter "2025" selects, and
\* one among them that it does not select
BurstListing == <<"20250801.wav", "20250812.wav", "ax2025.wav", "20250801.mp3",
                  "2025", "202508_9.wav">>

\* the listings fs.readdirSync may return: distinct entries, in any order,
\* up to MaxFiles of them; and the burst
Listings == {s \in UNION {[1..n -> Names] : n \in 0..MaxFiles} :
               \A i, j \in 1..Len(s) : i # j => s[i] # s[j]}
            \cup {BurstListing}

(* ------------------------------------------------------------------ *)
(* Program constants                                                   *)
(* ------------------------------------------------------------------ *)

\* index.js:48  const inDir = "./in/"
inDir == "./in/"
\* index.js:35  const outDir = "out"
outDir == "out"
\* index.js:51  const limiter = "2025"
limiter == "2025"
\* index.js:61  the seed of the reduce: {"0":[], "1":[],"2":[],"3":[]}
seedBatches == [k \in {"0","1","2","3"} |-> <<>>]
\* Object.keys(batches): integer-like keys come in ascending order
batchKeys == <<"0","1","2","3">>
\* index.js:57  the index toGroupBy7thChar reads
GroupIndex == 6

\* a variation of outPathOf that the check of C15 must tell from it: one
\* document for all files
outPathShared(name) == str(Text[outDir] \o <<"/">> \o Text[limiter] \o Text[".md"])

\* index.js:39-41  outPath = path.join(outDir, `${path.parse(name).name}.md`)
outPathOf(name) == str(Text[outDir] \o <<"/">> \o Text[stem(name)] \o Text[".md"])

(* ------------------------------------------------------------------ *)
(* File selection and partitioning                                     *)
(* ------------------------------------------------------------------ *)

\* index.js:53  .filter(x => x.startsWith(limiter))
selectedBy(l, x) == startsWith(x, l)

\* index.js:54  .map(x => `${inDir}${x}`)
pathOf(x) == str(Text[inDir] \o Text[x])

\* index.js:52-54  filteredFiles
filterFiles(fs, l) ==
  LET F[i \in 0..Len(fs)] ==
        IF i = 0 THEN <<>>
        ELSE IF selectedBy(l, fs[i]) THEN Append(F[i-1], fs[i]) ELSE F[i-1]
      kept == F[Len(fs)]
  IN [i \in 1..Len(kept) |-> pathOf(kept[i])]

\* index.js:57  the key toGroupBy7thChar reads: cur[6], cur being the
\* element of filteredFiles, that is the path
groupKey(cur) == charAt(cur, GroupIndex)

\* a variation of toGroupBy7thChar that the check of C18 must tell from it:
\* the file is pushed to no bucket
toGroupDropping(agg, cur) == agg

\* index.js:56-59  toGroupBy7thChar: agg[cur[6]].push(cur); a key that was
\* not seeded makes agg[cur[6]] undefined and .push a TypeError, which ends
\* the reduce (threw)
toGroupBy7thChar(agg, cur) ==
  IF agg.threw THEN agg
  ELSE IF groupKey(cur) \in DOMAIN agg.groups
       THEN [agg EXCEPT !.groups[groupKey(cur)] = Append(@, cur)]
       ELSE [agg EXCEPT !.threw = TRUE]

\* index.js:61  filteredFiles.reduce(toGroupBy7thChar, seed)
reduceBatches(ff) ==
  LET F[i \in 0..Len(ff)] ==
        IF i = 0 THEN [threw |-> FALSE, groups |-> seedBatches]
        ELSE toGroupBy7thChar(F[i-1], ff[i])
  IN F[Len(ff)]

(* ------------------------------------------------------------------ *)
(* State                                                               *)
(* ------------------------------------------------------------------ *)

VARIABLES
  pc,            \* the statement the top-level code is at
  err,           \* the exception that ended the run, "" when none
  exitCode,      \* the process's exit status, -1 while it runs
  apiKey,        \* environment: whether DEEPGRAM_API_KEY is set
  dirOk,         \* environment: whether ./in/ exists and can be read
  dir,           \* environment: what readdirSync(inDir) returns
  argv,          \* environment: process.argv[2], "" when absent
  fate,          \* environment: what reading, transcribing and writing each entry meets
  files,         \* const files
  lim,           \* const limiter
  filteredFiles, \* const filteredFiles
  batches,       \* const batches
  log,           \* what console.log has printed
  saveToDisk,    \* const saveToDisk
  transcripts,   \* const transcripts: one promise per element of filteredFiles
  namesAndTranscripts, \* const namesAndTranscripts
  saves,         \* the promises saveToDisk(record) returned, by record
  cursor,        \* how many saveTo continuations have run
  calls,         \* requests issued to the provider, by path
  reads,         \* readFileSync calls, by path
  writes,        \* writeFileSync calls that returned, by path
  out,           \* the output directory: path -> content
  history,       \* the output directory as each earlier run on it left it
  answered       \* the calls the provider has answered, in the order of its answers

vars == <<pc, err, exitCode, apiKey, dirOk, dir, argv, fate, files, lim,
          filteredFiles, batches, log, saveToDisk, transcripts,
          namesAndTranscripts, saves, cursor, calls, reads, writes, out,
          history, answered>>

\* what an entry may meet: nothing; the provider answers {error}; the
\* provider call throws (network); the response has no channels; the
\* first alternative has no transcript; readFileSync throws; writeFileSync
\* throws; the provider never answers
Fates == {"ok", "errorValue", "throws", "noChannels", "noTranscript",
          "readFails", "writeFails", "hang"}
Faults == Fates \ {"ok"}

Paths == {pathOf(x) : x \in Names}
nameOfPath(p) == str(SubSeq(Text[p], Len(Text[inDir]) + 1, Len(Text[p])))
fateOf(p) == fate[nameOfPath(p)]

\* values a promise settles to and a document holds
NoValue == [kind |-> "none", of |-> ""]
Undefined == [kind |-> "undefined", of |-> ""]
Transcript(p) == [kind |-> "transcript", of |-> p]
Message(p) == [kind |-> "message", of |-> p]

Pending == [state |-> "pending", value |-> NoValue]
Resolved(v) == [state |-> "resolved", value |-> v]
Rejected(v) == [state |-> "rejected", value |-> v]

\* console.log entries: an event and the string it carries
Logged(e, a) == [ev |-> e, arg |-> a]

\* the entries of `d` the limiter `l` selects
selectedNames(d, l) == {x \in Range(d) : selectedBy(l, x)}

\* the environment of a run whose limiter is `l`: only a selected entry is
\* ever read, transcribed or written, so only a selected entry has a fault;
\* a run that dies of a missing key or directory reads nothing at all
InitEnv(l) ==
  /\ apiKey \in BOOLEAN
  /\ dirOk \in BOOLEAN
  /\ dir \in Listings
  /\ \E F \in SUBSET selectedNames(dir, l) :
       /\ Cardinality(F) <= MaxFaulty
       /\ (~apiKey \/ ~dirOk) => F = {}
       /\ \E g \in [F -> Faults] :
            fate = [x \in Names |-> IF x \in F THEN g[x] ELSE "ok"]

InitState ==
  /\ err = ""
  /\ exitCode = -1
  /\ files = <<>>
  /\ filteredFiles = <<>>
  /\ batches = seedBatches
  /\ log = <<>>
  /\ saveToDisk = "undefined"
  /\ transcripts = <<>>
  /\ namesAndTranscripts = <<>>
  /\ saves = <<>>
  /\ cursor = 0
  /\ calls = [p \in Paths |-> 0]
  /\ reads = [p \in Paths |-> 0]
  /\ writes = [p \in Paths |-> 0]
  /\ out = <<>>
  /\ history = <<>>
  /\ answered = <<>>

\* a new process on the same environment: nothing of the ended process is
\* kept (the script persists no state), the directories are as it left them
startAgain ==
  /\ pc \in {"crashed", "exited"}
  /\ Len(history) < MaxRuns - 1
  /\ history' = Append(history, out)
  /\ answered' = <<>>
  /\ err' = ""
  /\ exitCode' = -1
  /\ files' = <<>>
  /\ filteredFiles' = <<>>
  /\ batches' = seedBatches
  /\ log' = <<>>
  /\ saveToDisk' = "undefined"
  /\ transcripts' = <<>>
  /\ namesAndTranscripts' = <<>>
  /\ saves' = <<>>
  /\ cursor' = 0
  /\ calls' = [p \in Paths |-> 0]
  /\ reads' = [p \in Paths |-> 0]
  /\ writes' = [p \in Paths |-> 0]
  /\ UNCHANGED <<apiKey, dirOk, dir, argv, fate, out>>

\* a variation of throw that the check of C12 must tell from it: the
\* exception is noted and the script goes on with the next statements
swallowed(e) ==
  /\ pc' = "L52"
  /\ err' = e
  /\ exitCode' = exitCode

\* an uncaught exception at the top level: Node prints it and exits with
\* status 1; no pending continuation runs
throw(e) ==
  /\ pc' = "crashed"
  /\ err' = e
  /\ exitCode' = 1

(* ------------------------------------------------------------------ *)
(* src/index.js                                                        *)
(* ------------------------------------------------------------------ *)

\* index.js:51  limiter is a constant of the script; process.argv is not read
Init ==
  /\ pc = "L33"
  /\ argv = ""
  /\ lim = limiter
  /\ InitEnv(limiter)
  /\ InitState

\* index.js:8,33  createClient(process.env.DEEPGRAM_API_KEY): the SDK throws
\* when the key is missing
createDeepgramClient ==
  /\ pc = "L33"
  /\ IF apiKey
     THEN pc' = "L36" /\ UNCHANGED <<err, exitCode>>
     ELSE throw("DeepgramError")
  /\ UNCHANGED <<history, answered, apiKey, dirOk, dir, argv, fate, files, lim, filteredFiles,
                 batches, log, saveToDisk, transcripts, namesAndTranscripts,
                 saves, cursor, calls, reads, writes, out>>

\* index.js:36-46  `const saveTo = (writeContentSync) = async (input) => {..}`
\* is an assignment, not an arrow: saveTo and the global writeContentSync are
\* both the async function. saveTo(writeFileSync) therefore RUNS it with
\* input = writeFileSync: it logs the input, computes a path from the
\* function's name and stops at `await transcript`. saveToDisk is the pending
\* promise of that call, not a function.
makeSaveToDisk ==
  /\ pc = "L36"
  /\ log' = Append(log, Logged("input", "writeFileSync"))
  /\ saveToDisk' = "promise"
  /\ pc' = "L49"
  /\ UNCHANGED <<history, answered, err, exitCode, apiKey, dirOk, dir, argv, fate, files, lim,
                 filteredFiles, batches, transcripts, namesAndTranscripts,
                 saves, cursor, calls, reads, writes, out>>

\* index.js:49  const files = readdirSync(inDir)
readdir ==
  /\ pc = "L49"
  /\ IF dirOk
     THEN files' = dir /\ pc' = "L52" /\ UNCHANGED <<err, exitCode>>
     ELSE throw("ENOENT") /\ UNCHANGED files
  /\ UNCHANGED <<history, answered, apiKey, dirOk, dir, argv, fate, lim, filteredFiles, batches,
                 log, saveToDisk, transcripts, namesAndTranscripts, saves,
                 cursor, calls, reads, writes, out>>

\* index.js:52-54  const filteredFiles = files.filter(..).map(..)
filter ==
  /\ pc = "L52"
  /\ filteredFiles' = filterFiles(files, lim)
  /\ pc' = "L61"
  /\ UNCHANGED <<history, answered, err, exitCode, apiKey, dirOk, dir, argv, fate, files, lim,
                 batches, log, saveToDisk, transcripts, namesAndTranscripts,
                 saves, cursor, calls, reads, writes, out>>

\* index.js:61-65  const batches = filteredFiles.reduce(..); console.log(..)
partition ==
  /\ pc = "L61"
  /\ LET r == reduceBatches(filteredFiles) IN
       IF r.threw
       THEN throw("TypeError") /\ UNCHANGED <<batches, log>>
       ELSE /\ batches' = r.groups
            /\ log' = Append(log, Logged("All Batches", ""))
            /\ pc' = "L67"
            /\ UNCHANGED <<err, exitCode>>
  /\ UNCHANGED <<history, answered, apiKey, dirOk, dir, argv, fate, files, lim, filteredFiles,
                 saveToDisk, transcripts, namesAndTranscripts, saves, cursor,
                 calls, reads, writes, out>>

\* the identifiers index.js declares (lines 1-61)
Declared == {"path", "fs", "createClient", "createDeepgramClient",
             "readFileSync", "writeFileSync", "readdirSync",
             "transcribeContentWithTool", "transcribeFileWithDeepgram",
             "outDir", "saveTo", "writeContentSync", "saveToDisk", "inDir",
             "files", "limiter", "filteredFiles", "toGroupBy7thChar", "batches"}

\* index.js:67-70  the first turn of Object.keys(batches).forEach: it logs
\* "Starting Batch" for key "0" and evaluates theBatch.map(transcribeFile).
\* No transcribeFile is declared (the function is transcribeFileWithDeepgram),
\* so the argument raises ReferenceError whatever the batch holds, and the
\* exception leaves forEach and the module: lines 71-90 never run.
batchLoop ==
  /\ pc = "L67"
  /\ log' = Append(log, Logged("Starting Batch", batchKeys[1]))
  /\ "transcribeFile" \notin Declared
  /\ throw("ReferenceError")
  /\ UNCHANGED <<history, answered, apiKey, dirOk, dir, argv, fate, files, lim, filteredFiles,
                 batches, saveToDisk, transcripts, namesAndTranscripts, saves,
                 cursor, calls, reads, writes, out>>

\* `node index.js` once more
rerun ==
  /\ startAgain
  /\ pc' = "L33"
  /\ UNCHANGED lim

Next ==
  \/ rerun
  \/ createDeepgramClient
  \/ makeSaveToDisk
  \/ readdir
  \/ filter
  \/ partition
  \/ batchLoop

Spec == Init /\ [][Next]_vars

(* ------------------------------------------------------------------ *)
(* The transcription client adapter and the result writer              *)
(* ------------------------------------------------------------------ *)

\* a variation of transcribeStart that the check of C19 must tell from it:
\* the promise counts as resolved, with no value yet, as soon as the call is
\* made
transcribeStartSettled(p, f) == Resolved(NoValue)

\* index.js:14-16  transcribeContentWithTool up to its await: readContentSync
\* runs inside the try, so a read that throws is caught (line 29) and the
\* call returns ex.message at once; otherwise the request is issued and the
\* promise is pending
transcribeStart(p, f) ==
  IF f = "readFails" THEN Resolved(Message(p)) ELSE Pending

\* index.js:17-31  transcribeContentWithTool after its await, by what the
\* provider did: {error} is thrown (line 24) and caught, as is a throwing
\* call and the TypeError of reading channels[0] of a response without
\* channels: all three return ex.message. A first alternative without a
\* transcript property makes line 27 return undefined.
transcribeSettle(p, f) ==
  CASE f \in {"errorValue", "throws", "noChannels"} -> Resolved(Message(p))
    [] f = "noTranscript" -> Resolved(Undefined)
    [] OTHER -> Resolved(Transcript(p))

\* README.md:107-109 (index.js:42-44)  saveTo after `await transcript`:
\* fs.writeFileSync(outPath, contents) throws on contents that are no string
\* (undefined) and when the disk refuses; then the promise of saveTo rejects
\* and nothing is written
writeThrows(contents, f) ==
  contents.kind \notin {"transcript", "message"} \/ f = "writeFails"

\* a variation of written that the check of C14 must tell from it: a file
\* that exists is appended to, not replaced
writtenAppending(o, path, contents) ==
  IF path \in DOMAIN o
  THEN (path :> [kind |-> "appended", of |-> contents.of]) @@ o
  ELSE (path :> contents) @@ o

\* the output directory after writeFileSync(outPath, contents) returned
written(o, path, contents) == (path :> contents) @@ o

(* ------------------------------------------------------------------ *)
(* src/src/python/README.md, lines 64-170                              *)
(* ------------------------------------------------------------------ *)

\* README.md:117  const DEFAULT_LIMITER = "2025080"
DEFAULT_LIMITER == "2025080"
HelpLong == "--help"
HelpShort == "-h"

\* the values of process.argv[2] that are enumerated: absent, the two help
\* flags, the limiter of index.js, and a limiter whose files have a second
\* character that is no seeded key
Argvs == {"", HelpLong, HelpShort, limiter, "a"}

\* README.md:118  process.argv[2] || DEFAULT_LIMITER
limiterOf(a) == IF a = "" THEN DEFAULT_LIMITER ELSE a

\* README.md:121
isHelp(l) == l = HelpLong \/ l = HelpShort

InitReadme ==
  /\ pc = "R98"
  /\ argv \in Argvs
  /\ lim = ""
  /\ InitEnv(limiterOf(argv))
  /\ InitState

\* README.md:98
readmeCreateClient ==
  /\ pc = "R98"
  /\ IF apiKey
     THEN pc' = "R111" /\ UNCHANGED <<err, exitCode>>
     ELSE throw("DeepgramError")
  /\ UNCHANGED <<history, answered, apiKey, dirOk, dir, argv, fate, files, lim, filteredFiles,
                 batches, log, saveToDisk, transcripts, namesAndTranscripts,
                 saves, cursor, calls, reads, writes, out>>

\* README.md:101-111  saveTo is the curried arrow here, saveToDisk a function
readmeMakeSaveToDisk ==
  /\ pc = "R111"
  /\ saveToDisk' = "function"
  /\ pc' = "R114"
  /\ UNCHANGED <<history, answered, err, exitCode, apiKey, dirOk, dir, argv, fate, files, lim,
                 filteredFiles, batches, log, transcripts,
                 namesAndTranscripts, saves, cursor, calls, reads, writes, out>>

\* README.md:114
readmeReaddir ==
  /\ pc = "R114"
  /\ IF dirOk
     THEN files' = dir /\ pc' = "R118" /\ UNCHANGED <<err, exitCode>>
     ELSE throw("ENOENT") /\ UNCHANGED files
  /\ UNCHANGED <<history, answered, apiKey, dirOk, dir, argv, fate, lim, filteredFiles, batches,
                 log, saveToDisk, transcripts, namesAndTranscripts, saves,
                 cursor, calls, reads, writes, out>>

\* README.md:116-128  the limiter, and the help flags: usage is printed and
\* process.exit(0) ends the run
readmeLimiter ==
  /\ pc = "R118"
  /\ lim' = limiterOf(argv)
  /\ IF isHelp(limiterOf(argv))
     THEN /\ log' = Append(log, Logged("Usage", ""))
          /\ pc' = "exited"
          /\ exitCode' = 0
     ELSE /\ log' = Append(log, Logged("Using limiter", limiterOf(argv)))
          /\ pc' = "R130"
          /\ UNCHANGED exitCode
  /\ UNCHANGED <<history, answered, err, apiKey, dirOk, dir, argv, fate, files, filteredFiles,
                 batches, saveToDisk, transcripts, namesAndTranscripts, saves,
                 cursor, calls, reads, writes, out>>

\* README.md:130-132
readmeFilter ==
  /\ pc = "R130"
  /\ filteredFiles' = filterFiles(files, lim)
  /\ pc' = "R139"
  /\ UNCHANGED <<history, answered, err, exitCode, apiKey, dirOk, dir, argv, fate, files, lim,
                 batches, log, saveToDisk, transcripts, namesAndTranscripts,
                 saves, cursor, calls, reads, writes, out>>

\* README.md:134-143
readmePartition ==
  /\ pc = "R139"
  /\ LET r == reduceBatches(filteredFiles) IN
       IF r.threw
       THEN throw("TypeError") /\ UNCHANGED <<batches, log>>
       ELSE /\ batches' = r.groups
            /\ log' = Append(log, Logged("All Batches", ""))
            /\ pc' = "R161"
            /\ UNCHANGED <<err, exitCode>>
  /\ UNCHANGED <<history, answered, apiKey, dirOk, dir, argv, fate, files, lim, filteredFiles,
                 saveToDisk, transcripts, namesAndTranscripts, saves, cursor,
                 calls, reads, writes, out>>

\* README.md:160-161  filteredFiles.map(transcribeFileWithDeepgram): map is
\* synchronous, so every call runs to its await (one read, and one request
\* unless the read threw) before any answer is looked at
readmeDispatch ==
  /\ pc = "R161"
  /\ transcripts' = [i \in 1..Len(filteredFiles) |->
                       transcribeStart(filteredFiles[i], fateOf(filteredFiles[i]))]
  /\ reads' = [p \in Paths |-> IF p \in Range(filteredFiles) THEN reads[p] + 1 ELSE reads[p]]
  /\ calls' = [p \in Paths |->
                 IF p \in Range(filteredFiles) /\ fateOf(p) # "readFails"
                 THEN calls[p] + 1 ELSE calls[p]]
  /\ log' = Append(log, Logged("filteredFiles", ""))
  /\ pc' = "R162"
  /\ UNCHANGED <<history, answered, err, exitCode, apiKey, dirOk, dir, argv, fate, files, lim,
                 filteredFiles, batches, saveToDisk, namesAndTranscripts,
                 saves, cursor, writes, out>>

\* the provider answers one pending call, in any order, while the module
\* waits at line 162; a hung call is never answered
readmeSettle(i) ==
  /\ pc = "R162"
  /\ transcripts[i].state = "pending"
  /\ fateOf(filteredFiles[i]) # "hang"
  /\ transcripts' = [transcripts EXCEPT ![i] =
                       transcribeSettle(filteredFiles[i], fateOf(filteredFiles[i]))]
  /\ answered' = Append(answered, i)
  /\ UNCHANGED <<history, pc, err, exitCode, apiKey, dirOk, dir, argv, fate, files, lim,
                 filteredFiles, batches, log, saveToDisk, namesAndTranscripts,
                 saves, cursor, calls, reads, writes, out>>

\* README.md:162  await Promise.all(transcripts): the module goes on once
\* every promise has resolved (none rejects: see transcribeSettle)
joined(ts) == \A i \in 1..Len(ts) : ts[i].state = "resolved"

\* a variation of recordOf that the check of C11 must tell from it: the name
\* of a file with the promise of another file's call
recordShifted(ff, i) == [name |-> ff[i], transcript |-> Len(ff) + 1 - i]

\* README.md:164-166 (index.js:86-88)  function(name, i) { return {name,
\* transcript: transcripts[i]} }: the promise is held by its index
recordOf(ff, i) == [name |-> ff[i], transcript |-> i]

\* README.md:162-170  past the await: the records are built and logged, and
\* map(saveToDisk) runs each saveTo to its `await transcript`
readmeSaveAll ==
  /\ pc = "R162"
  /\ joined(transcripts)
  /\ namesAndTranscripts' = [i \in 1..Len(filteredFiles) |-> recordOf(filteredFiles, i)]
  /\ log' = log \o <<Logged("namesAndTranscripts", "")>>
                \o [i \in 1..Len(filteredFiles) |-> Logged("input", filteredFiles[i])]
  /\ saves' = [i \in 1..Len(filteredFiles) |-> Pending]
  /\ pc' = "R170"
  /\ UNCHANGED <<history, answered, err, exitCode, apiKey, dirOk, dir, argv, fate, files, lim,
                 filteredFiles, batches, saveToDisk, transcripts, cursor,
                 calls, reads, writes, out>>

\* README.md:107 (index.js:42)  `await transcript`: the continuation runs
\* once the promise has resolved
awaited(t) == t.state = "resolved"

\* README.md:107-109  the continuation of the next saveTo, in the order the
\* records were mapped, once the transcript it awaits has resolved: it logs
\* the path and calls writeFileSync
readmeWrite ==
  /\ pc = "R170"
  /\ cursor < Len(namesAndTranscripts)
  /\ awaited(transcripts[namesAndTranscripts[cursor + 1].transcript])
  /\ LET rec == namesAndTranscripts[cursor + 1]
         contents == transcripts[rec.transcript].value
         outPath == outPathOf(rec.name)
     IN /\ log' = Append(log, Logged("Writing contents to", outPath))
        /\ IF writeThrows(contents, fateOf(rec.name))
           THEN /\ saves' = [saves EXCEPT ![cursor + 1] = Rejected(Message(rec.name))]
                /\ UNCHANGED <<out, writes>>
           ELSE /\ saves' = [saves EXCEPT ![cursor + 1] = Resolved(Undefined)]
                /\ out' = written(out, outPath, contents)
                /\ writes' = [writes EXCEPT ![rec.name] = @ + 1]
  /\ cursor' = cursor + 1
  /\ UNCHANGED <<history, answered, pc, err, exitCode, apiKey, dirOk, dir, argv, fate, files, lim,
                 filteredFiles, batches, saveToDisk, transcripts,
                 namesAndTranscripts, calls, reads>>

\* the event loop is empty. A rejected saveTo promise has no handler: Node 15
\* and later end the process with status 1 for it, older versions warn and
\* exit 0
readmeExit ==
  /\ pc = "R170"
  /\ cursor = Len(namesAndTranscripts)
  /\ pc' = "exited"
  /\ IF \E i \in 1..Len(saves) : saves[i].state = "rejected"
     THEN err' = "UnhandledRejection" /\ exitCode' \in {0, 1}
     ELSE UNCHANGED err /\ exitCode' = 0
  /\ UNCHANGED <<history, answered, apiKey, dirOk, dir, argv, fate, files, lim, filteredFiles,
                 batches, log, saveToDisk, transcripts, namesAndTranscripts,
                 saves, cursor, calls, reads, writes, out>>

\* the same command line once more
readmeRerun ==
  /\ startAgain
  /\ pc' = "R98"
  /\ lim' = ""

NextReadme ==
  \/ readmeRerun
  \/ readmeCreateClient
  \/ readmeMakeSaveToDisk
  \/ readmeReaddir
  \/ readmeLimiter
  \/ readmeFilter
  \/ readmePartition
  \/ readmeDispatch
  \/ \E i \in 1..Len(transcripts) : readmeSettle(i)
  \/ readmeSaveAll
  \/ readmeWrite
  \/ readmeExit

SpecReadme == InitReadme /\ [][NextReadme]_vars

(* ------------------------------------------------------------------ *)
(* Vocabulary of the claims                                            *)
(* ------------------------------------------------------------------ *)

\* the process is over: by an uncaught exception, or by leaving the event
\* loop or process.exit
ended == pc \in {"crashed", "exited"}

\* no setup error: the credential is there and the input directory is read
setupOk == apiKey /\ dirOk

\* the entries of the directory whose name starts with the limiter, as paths
matching ==
  {pathOf(x) : x \in {y \in Range(dir) :
     Len(Text[lim]) <= Len(Text[y]) /\ SubSeq(Text[y], 1, Len(Text[lim])) = Text[lim]}}

hasDocument(p) == outPathOf(p) \in DOMAIN out
documentOf(p) == out[outPathOf(p)]

\* the calls of transcribe(file) that have not resolved
unresolvedCalls == {i \in 1..Len(transcripts) : transcripts[i].state = "pending"}

\* a name without a 7th character, or whose 7th character is no seeded key
partitionError(p) ==
  LET b == Text[basename(p)]
  IN Len(b) < GroupIndex + 1 \/ b[GroupIndex + 1] \notin DOMAIN seedBatches

loggedAbout(e, p) == \E i \in 1..Len(log) : log[i] = Logged(e, p)

\* the provider fails the file, as an {error} value or by throwing
providerFails(p) == fateOf(p) \in {"errorValue", "throws"}

(* ------------------------------------------------------------------ *)
(* Claims                                                              *)
(* ------------------------------------------------------------------ *)

\* C2: at no time are more than the configured maximum (default 4) of
\* transcription calls issued and not yet resolved.
C2_InFlightBounded == Cardinality(unresolvedCalls) <= BatchSize

\* C3: when a run without setup error has ended, every selected file has its
\* output document, holding that file's transcript or failure message, and
\* there are as many documents as selected files.
C3_OneDocumentPerFile ==
  (ended /\ setupOk) =>
    /\ \A p \in matching :
         hasDocument(p) /\ documentOf(p) \in {Transcript(p), Message(p)}
    /\ Cardinality(DOMAIN out) = Cardinality(matching)

\* C4: over a whole run each selected file is read once, has exactly one
\* request issued to the provider and is written once.
C4_ReadTranscribedWrittenOnce ==
  (ended /\ setupOk) =>
    \A p \in matching : reads[p] = 1 /\ calls[p] = 1 /\ writes[p] = 1

\* C5: if the provider fails file A and answers file B, then at the end B's
\* document holds B's transcript, A's document holds A's failure message, and
\* the run has completed (exit status 0).
C5_FailureIsolated ==
  (ended /\ setupOk) =>
    \A a, b \in matching :
      (providerFails(a) /\ fateOf(b) = "ok" /\ stem(a) # stem(b)) =>
        /\ hasDocument(b) /\ documentOf(b) = Transcript(b)
        /\ hasDocument(a) /\ documentOf(a) = Message(a)
        /\ exitCode = 0

\* C6: transcribe(file) never rejects, and what it resolves to is the
\* transcript text or a failure message, whatever the provider or the read
\* did.
C6_OutcomeIsTranscriptOrMessage ==
  \A i \in 1..Len(transcripts) :
    /\ transcripts[i].state # "rejected"
    /\ transcripts[i].state = "resolved" =>
         transcripts[i].value \in {Transcript(filteredFiles[i]), Message(filteredFiles[i])}

\* C7: the files for which transcribe is called are exactly the entries whose
\* name starts with the limiter: never another entry, and by the end of a run
\* without setup error all of them; an entry that does not match gets no
\* document.
C7_DispatchedIsMatching ==
  /\ {p \in Paths : reads[p] > 0} \subseteq matching
  /\ \A p \in Paths \ matching : ~hasDocument(p) \/ \E q \in matching : outPathOf(q) = outPathOf(p)
  /\ (ended /\ setupOk) => {p \in Paths : reads[p] > 0} = matching

\* C8: a selected file whose name is longer than 6 characters is in the
\* bucket keyed by the character at index 6 of its base name.
C8_BucketIsSeventhCharOfName ==
  \A k \in DOMAIN batches : \A i \in 1..Len(batches[k]) :
    LET b == Text[basename(batches[k][i])]
    IN Len(b) > GroupIndex => k = b[GroupIndex + 1]

\* C9: a selected file with a partition error is skipped with a logged
\* warning or gets a Failure document, and does not halt the run: every other
\* selected file still has its document at the end.
C9_PartitionErrorIsPerFile ==
  (ended /\ setupOk) =>
    \A p \in matching : partitionError(p) =>
      /\ loggedAbout("warning", p) \/ (hasDocument(p) /\ documentOf(p) = Message(p))
      /\ \A q \in matching : ~partitionError(q) => hasDocument(q)

\* C10: when the write of one record's document fails, the error is logged
\* with the file name, the process does not abort (exit status 0) and every
\* sibling record is still written.
C10_WriteErrorIsPerRecord ==
  (ended /\ setupOk) =>
    \A a \in matching : fateOf(a) = "writeFails" =>
      /\ loggedAbout("error", a)
      /\ exitCode = 0
      /\ \A b \in matching : (fateOf(b) = "ok" /\ stem(b) # stem(a)) => hasDocument(b)

\* the outcome of the call issued for file p, once the provider has answered
outcomeOf(p) ==
  IF fateOf(p) = "readFails" THEN Message(p) ELSE transcribeSettle(p, fateOf(p)).value

\* C11 (as stated): the i-th record pairs the i-th input file with the outcome
\* of the call issued for that file, and the output document of a file never
\* holds the outcome of another file's transcription.
C11_DocumentHoldsOwnOutcome ==
  /\ \A i \in 1..Len(namesAndTranscripts) :
       /\ namesAndTranscripts[i].name = filteredFiles[i]
       /\ transcripts[namesAndTranscripts[i].transcript].state = "resolved" =>
            transcripts[namesAndTranscripts[i].transcript].value = outcomeOf(filteredFiles[i])
  /\ \A p \in matching : hasDocument(p) => documentOf(p).of = p

\* C11 (amended): the i-th record pairs the i-th input file with the outcome
\* of the call issued for that file, whatever order the calls resolve in, and
\* a document holds the outcome of a file whose output path it is: of the
\* file itself or of a file with the same stem, never of a file with another
\* stem.
C11_RecordPairsFileWithItsOutcome ==
  /\ \A i \in 1..Len(namesAndTranscripts) :
       /\ namesAndTranscripts[i].name = filteredFiles[i]
       /\ transcripts[namesAndTranscripts[i].transcript].state = "resolved" =>
            transcripts[namesAndTranscripts[i].transcript].value = outcomeOf(filteredFiles[i])
  /\ \A path \in DOMAIN out :
       /\ out[path].of \in matching
       /\ outPathOf(out[path].of) = path
       /\ out[path] = outcomeOf(out[path].of)

\* two records written, the second file's call having resolved before the
\* first file's
C11_Witness ==
  /\ pc = "R170"
  /\ cursor >= 2
  /\ Cardinality(DOMAIN out) >= 2
  /\ Len(answered) >= 2
  /\ answered[1] = 2

\* C12: a missing credential or an input directory that cannot be listed
\* ends the run at that statement with a nonzero exit status: the run never
\* gets to a later statement, and no file is read, no transcription call is
\* issued and no document is written in a run whose setup fails.
C12_SetupErrorIsFatal ==
  /\ (~apiKey /\ pc # "L33") => (pc = "crashed" /\ err = "DeepgramError" /\ exitCode = 1)
  /\ (apiKey /\ ~dirOk /\ pc \notin {"L33", "L36", "L49"}) =>
       (pc = "crashed" /\ err = "ENOENT" /\ exitCode = 1)
  /\ ~setupOk =>
       /\ \A p \in Paths : reads[p] = 0 /\ calls[p] = 0 /\ writes[p] = 0
       /\ transcripts = <<>> /\ out = <<>> /\ filteredFiles = <<>>

\* the listing of a directory that holds selected files has failed
C12_Witness ==
  /\ apiKey /\ ~dirOk
  /\ pc = "crashed" /\ err = "ENOENT"
  /\ selectedNames(dir, limiter) # {}

\* C13: invoked with --help or -h (and the credential present), the program
\* lists no directory, issues no call and writes nothing, and it ends with
\* the usage printed and exit status 0, whatever the input directory is.
C13_HelpDoesNoWork ==
  (isHelp(argv) /\ apiKey) =>
    /\ pc # "R118"
    /\ files = <<>>
    /\ \A p \in Paths : reads[p] = 0 /\ calls[p] = 0 /\ writes[p] = 0
    /\ ended => (exitCode = 0 /\ loggedAbout("Usage", ""))

\* C14: when a run on a directory that an earlier run has processed ends (same
\* entries, same limiter, the provider and the disks behaving the same for
\* each file), the output directory holds the documents the earlier run left:
\* the same paths, the same content at each path, in whatever order the calls
\* of either run were answered.
C14_RerunLeavesSameDocuments ==
  (ended /\ Len(history) >= 1) => out = history[Len(history)]

\* a second run has ended that wrote two documents, its calls answered in
\* another order than the files were listed
C14_Witness ==
  /\ pc = "exited"
  /\ Len(history) >= 1
  /\ Cardinality(DOMAIN out) >= 2
  /\ cursor >= 2
  /\ Len(answered) >= 2 /\ answered[1] # 1

\* the output path of a file is <outDir>/<stem>.md, the same for two files
\* exactly when their stems are the same
OutPathIsOfStem ==
  /\ \A a, b \in Paths : (stem(a) = stem(b)) <=> (outPathOf(a) = outPathOf(b))
  /\ \A a \in Paths :
       outPathOf(a) = str(Text[outDir] \o <<"/">> \o Text[stem(a)] \o Text[".md"])

\* C15: the output path of a file is <outDir>/<stem>.md, the same for two
\* files exactly when their stems are the same; and the step of saveTo that
\* writes the record of file f changes the output directory at that path
\* only: when the write returns, the document at the path is f's outcome
\* (created or replaced), every other document is as it was and none is
\* removed; when the write throws, nothing changes. No other step of a run
\* changes the output directory.
C15_WriteTouchesOnlyOwnDocument ==
  [][/\ OutPathIsOfStem
     /\ (cursor' # cursor + 1) => out' = out
     /\ (cursor' = cursor + 1) =>
          LET f == namesAndTranscripts[cursor + 1].name
              path == outPathOf(f)
          IN /\ \A q \in DOMAIN out \ {path} : q \in DOMAIN out' /\ out'[q] = out[q]
             /\ DOMAIN out' \subseteq DOMAIN out \cup {path}
             /\ IF writes'[f] = writes[f] + 1
                THEN path \in DOMAIN out' /\ out'[path] = outcomeOf(f)
                ELSE out' = out
    ]_vars

\* a document has been replaced by the record of a file with the same stem
\* while a document of another stem was there
C15_Witness ==
  /\ pc = "R170"
  /\ \E a, b \in Range(filteredFiles) :
       /\ a # b /\ stem(a) = stem(b)
       /\ writes[a] = 1 /\ writes[b] = 1
  /\ Cardinality(DOMAIN out) >= 2

\* C16: a run ends with a nonzero exit status only on a setup error; and a
\* run without setup error, all of whose provider calls are answered, ends
\* with a document written for every selected file.
C16_CompletesUnlessSetupFails ==
  /\ exitCode > 0 => ~setupOk
  /\ (ended /\ setupOk /\ \A p \in matching : fateOf(p) # "hang") =>
       \A p \in matching : hasDocument(p)

\* the places of the buckets: a key and an index into its sequence
bucketPlaces == UNION {{<<k, i>> : i \in 1..Len(batches[k])} : k \in DOMAIN batches}

\* where the directory listing has the entry of path p
listedAt(p) == CHOOSE n \in 1..Len(dir) : dir[n] = nameOfPath(p)

\* C18: once the partition is computed (line 61 returned and line 65 logged
\* it), the buckets are exactly "0", "1", "2", "3"; every selected file is at
\* exactly one place of one bucket; every file in a bucket is a selected
\* file; and the files of a bucket are in the order of the directory listing.
C18_PartitionIsTotalAndOrdered ==
  loggedAbout("All Batches", "") =>
    /\ DOMAIN batches = {"0", "1", "2", "3"}
    /\ \A p \in matching :
         Cardinality({pl \in bucketPlaces : batches[pl[1]][pl[2]] = p}) = 1
    /\ \A pl \in bucketPlaces : batches[pl[1]][pl[2]] \in matching
    /\ \A k \in DOMAIN batches : \A i, j \in 1..Len(batches[k]) :
         i < j => listedAt(batches[k][i]) < listedAt(batches[k][j])

\* a partition of a listing that holds two selected files and, between or
\* around them, an entry that is not selected
C18_Witness ==
  /\ pc = "L67"
  /\ loggedAbout("All Batches", "")
  /\ Cardinality(bucketPlaces) >= 2
  /\ \E x \in Range(dir) : ~selectedBy(lim, x)

stalled ==
  /\ pc = "R162"
  /\ unresolvedCalls # {}
  /\ \A i \in unresolvedCalls : fateOf(filteredFiles[i]) = "hang"

\* C20: a call that never resolves keeps only its own file from being
\* written: when the run can go no further, every other selected file whose
\* call resolved to a transcript or a message has its document.
C20_HangBlocksOnlyOwnFile ==
  stalled =>
    \A i \in 1..Len(transcripts) :
      (transcripts[i].state = "resolved" /\ fateOf(filteredFiles[i]) # "noTranscript")
        => hasDocument(filteredFiles[i])

====
